---- MODULE Spec2Model ----
(***************************************************************************)
(* A model of the compresstimator library (src/src/lib.rs): the estimator  *)
(* configuration with its constructors and mutators, the byte-counting     *)
(* sink, the sample-size calculator, and the three estimation entry points *)
(* base_truth, compresstimate and compresstimate_len, each run against a   *)
(* seekable in-memory stream.                                              *)
(*                                                                         *)
(* f32 values are kept as exact fractions <<num, den>>.  For every         *)
(* configuration and population the model enumerates, the f32 evaluation   *)
(* of sample_size and the exact one yield the same integer.                *)
(***************************************************************************)
EXTENDS Integers, Sequences, FiniteSets

VARIABLES
    est,      \* the Compresstimator value: block_size, error_margin, confidence
    data,     \* the content of the stream handed to the estimation calls
    last      \* the most recent call on the estimator and what it did

vars == <<est, data, last>>

----------------------------------------------------------------------------
(* Bounds of the model *)

\* longest stream content, in bytes
MaxLen == 8

\* largest block size handed to with_block_size / block_size
MaxBlockSize == 2

\* latest I/O call of a run at which a fault is injected
MaxFail == 8

\* furthest position, in bytes, a stream is handed over at
MaxPos == 2

----------------------------------------------------------------------------
(* Configuration *)

DEFAULT_BLOCK_SIZE == 4096

Confidence == {"C80", "C85", "C90", "C95", "C99"}

\* impl From<Confidence> for f32, in hundredths
ZScore(c) ==
    CASE c = "C80" -> 128
      [] c = "C85" -> 144
      [] c = "C90" -> 165
      [] c = "C95" -> 196
      [] c = "C99" -> 258

\* an f32 margin as the fraction <<numerator, denominator>>
DefaultMargin == <<1, 10>>

\* margins a caller passes to error_margin: inside (0,1) ...
ValidMargins == {<<16, 25>>}

\* ... and outside it: 0, 1, 1.5, -0.5
InvalidMargins == {<<0, 1>>, <<1, 1>>, <<3, 2>>, <<0 - 1, 2>>}

MarginInputs == ValidMargins \cup InvalidMargins

BlockSizeInputs == 0 .. MaxBlockSize

\* impl Default for Compresstimator
Default ==
    [block_size |-> DEFAULT_BLOCK_SIZE,
     error_margin |-> DefaultMargin,
     confidence |-> "C95"]

\* assert!(margin > 0.0 && margin < 1.0), on a fraction with a positive denominator
margin_ok_inclusive(margin) == margin[1] >= 0 /\ margin[1] <= margin[2]

margin_ok(margin) == margin[1] > 0 /\ margin[1] < margin[2]

----------------------------------------------------------------------------
(* Stream content *)

Kinds == {"zeros", "ramp"}

\* "zeros": one repeated byte; "ramp": no two neighbouring bytes equal
Content(kind, n) == [i \in 1 .. n |-> IF kind = "zeros" THEN 0 ELSE (i - 1) % 256]

Streams == {Content(k, n) : k \in Kinds, n \in 0 .. MaxLen}

----------------------------------------------------------------------------
(* The external compressor (lz4 level 1), observed through the sink *)

\* bytes the frame costs whatever the input
FrameOverhead == 1

RECURSIVE Runs(_)
\* number of maximal runs of equal bytes
Runs(s) ==
    IF Len(s) = 0 THEN 0
    ELSE IF Len(s) = 1 THEN 1
    ELSE (IF s[1] = s[2] THEN 0 ELSE 1) + Runs(Tail(s))

\* bytes a finished encoder has written for the input s: a deterministic
\* function of s that shrinks repetitive input and expands the rest
CompressedLen(s) == FrameOverhead + Runs(s)

\* WriteCount::default().written
WriteCount_default == 0

----------------------------------------------------------------------------
(* f32 arithmetic, as far as the library uses it *)

\* an f32: not-a-number, +infinity, or the finite fraction num/den (den > 0)
F32(cls, num, den) == [cls |-> cls, num |-> num, den |-> den]

One == F32("fin", 1, 1)

\* a as f32 / b as f32, for unsigned a and b
F32Div_inverted(a, b) ==
    IF a = 0
    THEN (IF b = 0 THEN F32("nan", 0, 1) ELSE F32("inf", 1, 0))
    ELSE F32("fin", b, a)

F32Div(a, b) ==
    IF b = 0
    THEN (IF a = 0 THEN F32("nan", 0, 1) ELSE F32("inf", 1, 0))
    ELSE F32("fin", a, b)

\* f32::min(x, 1.0): a NaN operand yields the other operand
min_one_unclamped(x) == x

min_one(x) ==
    CASE x.cls = "nan" -> One
      [] x.cls = "inf" -> One
      [] OTHER -> IF x.num >= x.den THEN One ELSE x

\* f32::ceil of num/den (den # 0) as an integer; a negative zero is 0
Ceil(num, den) ==
    IF den > 0 THEN 0 - ((0 - num) \div den) ELSE 0 - (num \div (0 - den))

\* `as u64` of an f32 holding an integer: NaN and negatives saturate to 0
AsU64(x) == IF x.cls = "nan" THEN 0 ELSE IF x.num < 0 THEN 0 ELSE x.num

\* fn sample_size(pop, moe, confidence) -> f32, before the cast.
\* n_naught = n0n / n0d; the quotient is num / den after scaling by n0d.
\* den = 0 needs pop = 0 and n_naught = 1, so the quotient is then 0/0.
sample_size(pop, moe, confidence) ==
    LET z == ZScore(confidence)
        n0n == (z * moe[2]) * (z * moe[2])
        n0d == 4 * (100 * moe[1]) * (100 * moe[1])
        num == pop * n0n
        den == n0n + (pop - 1) * n0d
    IN  IF den = 0 THEN F32("nan", 0, 1) ELSE F32("fin", Ceil(num, den), 1)

\* the limit of sample_size for a population near 2^64 / block_size, where
\* n_naught + pop - 1 rounds to pop: ceil(n_naught)
sample_size_huge(moe, confidence) ==
    LET z == ZScore(confidence)
        n0n == (z * moe[2]) * (z * moe[2])
        n0d == 4 * (100 * moe[1]) * (100 * moe[1])
    IN  F32("fin", Ceil(n0n, n0d), 1)

----------------------------------------------------------------------------
(* One run of an entry point over a stream: the I/O calls it issues *)

\* the outcome of a call: a ratio, an io::Error, or a panic
Ok(x) == [kind |-> "ok", ratio |-> x, err |-> "none"]
Err(e) == [kind |-> "err", ratio |-> F32("nan", 0, 1), err |-> e]
Panic(msg) == [kind |-> "panic", ratio |-> F32("nan", 0, 1), err |-> msg]
NoResult == [kind |-> "none", ratio |-> F32("nan", 0, 1), err |-> "none"]

\* the stream, the encoder and the log of I/O calls during a run.  fail = k > 0
\* makes the k-th I/O call of the run return an io::Error.
RunState(bytes, pos, fail) ==
    [data |-> bytes, pos |-> pos, fail |-> fail, err |-> "none",
     ops |-> <<>>, fed |-> <<>>, buf |-> <<>>, n |-> 0,
     written |-> WriteCount_default]

Op(name, at, n) == [op |-> name, at |-> at, n |-> n]

Logged(rs, name, at, n) == [rs EXCEPT !.ops = Append(rs.ops, Op(name, at, n))]

\* the injected fault hits the I/O call about to be issued
Faulty(rs) == rs.fail = Len(rs.ops) + 1

\* the `?` after an I/O call
Failed(rs) == rs.err # "none"

Min(a, b) == IF a <= b THEN a ELSE b
Max(a, b) == IF a >= b THEN a ELSE b

\* bytes of the stream from position pos (0-based), at most n of them
Bytes(bytes, pos, n) ==
    IF pos >= Len(bytes) THEN <<>>
    ELSE SubSeq(bytes, pos + 1, Min(Len(bytes), pos + n))

\* EncoderBuilder::new().level(1).build(output)
build(rs) ==
    LET rs1 == Logged(rs, "build", 0, 0)
    IN  IF Faulty(rs) THEN [rs1 EXCEPT !.err = "io"] ELSE rs1

\* input.seek(SeekFrom::Start(off)); a seek past the end is allowed
seek_relative(rs, off) ==
    LET rs1 == Logged(rs, "seek", rs.pos + off, 0)
    IN  IF Faulty(rs) THEN [rs1 EXCEPT !.err = "io"]
        ELSE [rs1 EXCEPT !.pos = rs.pos + off, !.n = rs.pos + off]

seek(rs, off) ==
    LET rs1 == Logged(rs, "seek", off, 0)
    IN  IF Faulty(rs) THEN [rs1 EXCEPT !.err = "io"]
        ELSE [rs1 EXCEPT !.pos = off, !.n = off]

\* input.seek(SeekFrom::Current(0)): reports the position
seek_current(rs) ==
    LET rs1 == Logged(rs, "seek_current", rs.pos, 0)
    IN  IF Faulty(rs) THEN [rs1 EXCEPT !.err = "io"]
        ELSE [rs1 EXCEPT !.n = rs.pos]

\* input.seek(SeekFrom::End(0)): moves to the end and reports its offset
seek_end(rs) ==
    LET rs1 == Logged(rs, "seek_end", Len(rs.data), 0)
    IN  IF Faulty(rs) THEN [rs1 EXCEPT !.err = "io"]
        ELSE [rs1 EXCEPT !.pos = Len(rs.data), !.n = Len(rs.data)]

\* input.read_exact(&mut buf) with a buffer of n bytes: fewer than n bytes
\* left is ErrorKind::UnexpectedEof
read_exact_lenient(rs, n) ==
    LET rs1 == Logged(rs, "read_exact", rs.pos, n)
        got == Bytes(rs.data, rs.pos, n)
    IN  [rs1 EXCEPT !.buf = got, !.pos = rs.pos + Len(got)]

read_exact(rs, n) ==
    LET rs1 == Logged(rs, "read_exact", rs.pos, n)
        got == Bytes(rs.data, rs.pos, n)
    IN  IF Faulty(rs) THEN [rs1 EXCEPT !.err = "io"]
        ELSE IF Len(got) < n
        THEN [rs1 EXCEPT !.err = "UnexpectedEof", !.pos = rs.pos + Len(got)]
        ELSE [rs1 EXCEPT !.buf = got, !.pos = rs.pos + n]

\* encoder.write_all(&buf)
write_all(rs) ==
    LET rs1 == Logged(rs, "write_all", 0, Len(rs.buf))
    IN  IF Faulty(rs) THEN [rs1 EXCEPT !.err = "io"]
        ELSE [rs1 EXCEPT !.fed = rs.fed \o rs.buf]

\* std::io::copy(&mut input.take(limit), &mut encoder): everything from the
\* current position, at most limit bytes; reports the bytes copied
copy(rs, limit) ==
    LET got == Bytes(rs.data, rs.pos, limit)
        rs1 == Logged(rs, "copy", rs.pos, Len(got))
    IN  IF Faulty(rs) THEN [rs1 EXCEPT !.err = "io"]
        ELSE [rs1 EXCEPT !.fed = rs.fed \o got, !.pos = rs.pos + Len(got),
                         !.n = Len(got)]

\* encoder.finish(): the sink now holds every byte the compressor emitted
finish(rs) ==
    LET rs1 == Logged(rs, "finish", 0, 0)
    IN  IF Faulty(rs) THEN [rs1 EXCEPT !.err = "io"]
        ELSE [rs1 EXCEPT !.written = rs.written + CompressedLen(rs.fed)]

\* what a run leaves behind: the value returned, the I/O calls issued, the
\* bytes fed to the compressor, `written` (nfed), the sink's count (out),
\* the branch taken with its sample count and stride, the len the sampler
\* worked on (negative: 2^64 + len, a wrapped subtraction) and the stream's
\* final position
Outcome(rs, result, branch, samples, step, nfed, len) ==
    [result |-> result, ops |-> rs.ops, fed |-> rs.fed, nfed |-> nfed,
     out |-> rs.written, branch |-> branch, samples |-> samples,
     step |-> step, len |-> len, endpos |-> rs.pos]

NoOutcome ==
    [result |-> NoResult, ops |-> <<>>, fed |-> <<>>, nfed |-> 0, out |-> 0,
     branch |-> "none", samples |-> 0, step |-> 0, len |-> 0, endpos |-> 0]

\* let (output, result) = encoder.finish();
\* result.map(|_| (output.written as f32 / written as f32).min(1.0))
settle(rs, branch, samples, step, nfed, len) ==
    LET rs1 == finish(rs)
    IN  IF Failed(rs1)
        THEN Outcome(rs1, Err(rs1.err), branch, samples, step, nfed, len)
        ELSE Outcome(rs1, Ok(min_one(F32Div(rs1.written, nfed))),
                     branch, samples, step, nfed, len)

\* pub fn base_truth(&self, input): compress everything that is left
base_truth(self, rs) ==
    LET rs1 == build(rs)
        rs2 == copy(rs1, Len(rs1.data))
    IN  IF Failed(rs1)
        THEN Outcome(rs1, Err(rs1.err), "none", 0, 0, 0, 0)
        ELSE IF Failed(rs2)
        THEN Outcome(rs2, Err(rs2.err), "whole", 0, 0, 0, 0)
        ELSE settle(rs2, "whole", 0, 0, rs2.n, 0)

\* if samples == 0 || len < samples * self.block_size * 4
whole_read_half(samples, len, bs) == samples = 0 \/ len < samples * bs * 2

whole_read(samples, len, bs) == samples = 0 \/ len < samples * bs * 4

\* let step = self.block_size * (blocks / samples);
stride_in_blocks(bs, blocks, samples) == blocks \div samples

stride(bs, blocks, samples) == bs * (blocks \div samples)

RECURSIVE sample_loop(_, _, _, _, _)
\* for i in 0..samples { seek(Start(step * i))?; read_exact(buf)?; write_all(buf)? }
sample_loop(i, samples, step, bs, rs) ==
    IF i >= samples THEN rs
    ELSE LET rs1 == seek(rs, step * i)
             rs2 == read_exact(rs1, bs)
             rs3 == write_all(rs2)
         IN  IF Failed(rs1) THEN rs1
             ELSE IF Failed(rs2) THEN rs2
             ELSE IF Failed(rs3) THEN rs3
             ELSE sample_loop(i + 1, samples, step, bs, rs3)

\* the body of compresstimate_len after the sample count is known
sampler(self, rs, len, blocks, samples) ==
    IF whole_read(samples, len, self.block_size)
    THEN LET rs1 == copy(rs, len)
         IN  IF Failed(rs1)
             THEN Outcome(rs1, Err(rs1.err), "whole", samples, 0, 0, len)
             ELSE settle(rs1, "whole", samples, 0, rs1.n, len)
    ELSE LET step == stride(self.block_size, blocks, samples)
             rs1 == sample_loop(0, samples, step, self.block_size, rs)
             nfed == self.block_size * samples
         IN  IF Failed(rs1)
             THEN Outcome(rs1, Err(rs1.err), "sample", samples, step, nfed, len)
             ELSE settle(rs1, "sample", samples, step, nfed, len)

\* pub fn compresstimate_len(&self, input, len)
compresstimate_len(self, rs, len) ==
    LET rs1 == build(rs)
    IN  IF Failed(rs1)
        THEN Outcome(rs1, Err(rs1.err), "none", 0, 0, 0, len)
        ELSE IF self.block_size = 0
        THEN Outcome(rs1, Panic("attempt to divide by zero"), "none", 0, 0, 0, len)
        ELSE LET blocks == len \div self.block_size
                 samples == AsU64(sample_size(blocks, self.error_margin,
                                              self.confidence))
             IN  sampler(self, rs1, len, blocks, samples)

\* compresstimate_len on len = 2^64 - d, the wrapped difference of a stream
\* positioned d bytes past its end: the population is so large that the
\* sample count is ceil(n_naught) >= 1, the sampling branch is taken, and
\* the stride lies past any content (kept here as the first offset past the
\* end of the stream)
compresstimate_len_wrapped(self, rs, d) ==
    LET rs1 == build(rs)
        samples == AsU64(sample_size_huge(self.error_margin, self.confidence))
        step == Len(rs.data) + 1
        rs2 == sample_loop(0, samples, step, self.block_size, rs1)
        nfed == self.block_size * samples
    IN  IF Failed(rs1)
        THEN Outcome(rs1, Err(rs1.err), "none", 0, 0, 0, 0 - d)
        ELSE IF self.block_size = 0
        THEN Outcome(rs1, Panic("attempt to divide by zero"), "none", 0, 0, 0, 0 - d)
        ELSE IF Failed(rs2)
        THEN Outcome(rs2, Err(rs2.err), "sample", samples, step, nfed, 0 - d)
        ELSE settle(rs2, "sample", samples, step, nfed, 0 - d)

\* pub fn compresstimate(&self, input).  len - pos on u64 with pos > len
\* panics in a build with overflow checks and wraps in one without.
compresstimate(self, rs, overflow_checks) ==
    LET rs1 == seek_current(rs)
        pos == rs1.n
        rs2 == seek_end(rs1)
        len == rs2.n
        rs3 == seek(rs2, pos)
    IN  IF Failed(rs1) THEN Outcome(rs1, Err(rs1.err), "none", 0, 0, 0, 0)
        ELSE IF Failed(rs2) THEN Outcome(rs2, Err(rs2.err), "none", 0, 0, 0, 0)
        ELSE IF Failed(rs3) THEN Outcome(rs3, Err(rs3.err), "none", 0, 0, 0, 0)
        ELSE IF len >= pos THEN compresstimate_len(self, rs3, len - pos)
        ELSE IF overflow_checks
        THEN Outcome(rs3, Panic("attempt to subtract with overflow"),
                     "none", 0, 0, 0, len - pos)
        ELSE compresstimate_len_wrapped(self, rs3, pos - len)

----------------------------------------------------------------------------
(* Constructors and mutators *)

\* pub fn with_block_size(block_size: u64) -> Self
with_block_size(b) == [Default EXCEPT !.block_size = b]

\* pub fn block_size(&mut self, block_size: u64) -> &Self
block_size(self, b) == [self EXCEPT !.block_size = b]

\* pub fn error_margin(&mut self, margin: f32) -> &Self: the assertion comes
\* before the store
error_margin(self, margin) ==
    IF margin_ok(margin)
    THEN [panicked |-> FALSE, self |-> [self EXCEPT !.error_margin = margin]]
    ELSE [panicked |-> TRUE, self |-> self]

\* pub fn confidence_level(&mut self, confidence: Confidence) -> &Self
confidence_level(self, c) == [self EXCEPT !.confidence = c]

----------------------------------------------------------------------------
(* The state machine *)

Done == [kind |-> "done", ratio |-> F32("nan", 0, 1), err |-> "none"]

\* the record of a constructor or mutator call
Configured(name, before, margin, result) ==
    [op |-> name, cfg |-> before, arg |-> margin, pos |-> 0, len |-> 0,
     fail |-> 0, r |-> [NoOutcome EXCEPT !.result = result]]

\* the record of an estimation call on a stream positioned at pos
Called(name, before, pos, len, fail, r) ==
    [op |-> name, cfg |-> before, arg |-> <<0, 1>>, pos |-> pos, len |-> len,
     fail |-> fail, r |-> r]

Configs ==
    [block_size : BlockSizeInputs \cup {DEFAULT_BLOCK_SIZE},
     error_margin : ValidMargins \cup {DefaultMargin},
     confidence : Confidence]

Positions == 0 .. Min(Len(data) + 1, MaxPos)

Lengths == 0 .. (MaxLen + 1)

Init ==
    /\ est = Default
    /\ data \in Streams
    /\ last = Configured("default", Default, <<0, 1>>, Done)

New ==
    /\ est' = Default
    /\ last' = Configured("new", est, <<0, 1>>, Done)
    /\ UNCHANGED data

WithBlockSize(b) ==
    /\ est' = with_block_size(b)
    /\ last' = Configured("with_block_size", est, <<0, 1>>, Done)
    /\ UNCHANGED data

BlockSize(b) ==
    /\ est' = block_size(est, b)
    /\ last' = Configured("block_size", est, <<0, 1>>, Done)
    /\ UNCHANGED data

ErrorMargin(m) ==
    LET res == error_margin(est, m)
    IN  /\ est' = res.self
        /\ last' = Configured("error_margin", est, m,
                              IF res.panicked
                              THEN Panic("assertion failed") ELSE Done)
        /\ UNCHANGED data

ConfidenceLevel(c) ==
    /\ est' = confidence_level(est, c)
    /\ last' = Configured("confidence_level", est, <<0, 1>>, Done)
    /\ UNCHANGED data

BaseTruth(p, fail) ==
    LET r == base_truth(est, RunState(data, p, fail))
    IN  /\ last' = Called("base_truth", est, p, 0, fail, r)
        /\ UNCHANGED <<est, data>>

Compresstimate(p, fail, overflow_checks) ==
    LET r == compresstimate(est, RunState(data, p, fail), overflow_checks)
    IN  /\ last' = Called("compresstimate", est, p, 0, fail, r)
        /\ UNCHANGED <<est, data>>

CompresstimateLen(p, len, fail) ==
    LET r == compresstimate_len(est, RunState(data, p, fail), len)
    IN  /\ last' = Called("compresstimate_len", est, p, len, fail, r)
        /\ UNCHANGED <<est, data>>

\* the library over a stream whose I/O never fails (an io::Cursor)
Next ==
    \/ New
    \/ \E b \in BlockSizeInputs : WithBlockSize(b)
    \/ \E b \in BlockSizeInputs : BlockSize(b)
    \/ \E m \in MarginInputs : ErrorMargin(m)
    \/ \E c \in Confidence : ConfidenceLevel(c)
    \/ \E p \in Positions : BaseTruth(p, 0)
    \/ \E p \in Positions, chk \in BOOLEAN : Compresstimate(p, 0, chk)
    \/ \E p \in Positions, len \in Lengths : CompresstimateLen(p, len, 0)

Spec == Init /\ [][Next]_vars

\* one estimation call of any configured estimator over a stream whose
\* fail-th I/O call returns an error
InitIO ==
    /\ est \in Configs
    /\ data \in Streams
    /\ last = Configured("default", est, <<0, 1>>, Done)

\* no estimation call has been made yet
Fresh == last.op = "default"

NextIO ==
    \/ \E p \in Positions, f \in 0 .. MaxFail : Fresh /\ BaseTruth(p, f)
    \/ \E p \in Positions, f \in 0 .. MaxFail, chk \in BOOLEAN :
           Fresh /\ Compresstimate(p, f, chk)
    \/ \E p \in Positions, len \in Lengths, f \in 0 .. MaxFail :
           Fresh /\ CompresstimateLen(p, len, f)

SpecIO == InitIO /\ [][NextIO]_vars

----------------------------------------------------------------------------
(* Properties *)

IsRead(o) == o.op = "read_exact"

\* the sampled reads of the last call, in order
Reads == SelectSeq(last.r.ops, IsRead)

IsCall == last.op \in {"base_truth", "compresstimate", "compresstimate_len"}

\* bytes between a position and the end of the stream
Remaining(p) == Max(0, Len(data) - p)

\* C1: with a positive block size, compresstimate_len(stream, 0), and
\* compresstimate on a stream positioned at its end, return exactly 1.0:
\* the sample count is 0, the whole-read branch is taken and nothing is fed
\* to the compressor.
C1_EmptyInputIsOne ==
    (/\ last.cfg.block_size > 0
     /\ \/ last.op = "compresstimate_len" /\ last.len = 0
        \/ last.op = "compresstimate" /\ last.pos = Len(data))
    => /\ last.r.result = Ok(One)
       /\ last.r.samples = 0
       /\ last.r.branch = "whole"
       /\ last.r.fed = <<>>
       /\ last.r.nfed = 0

\* an empty run whose sample_size quotient is 0/0 (margin 0.64 at 80%), on
\* a stream that is not empty
C1_Witness ==
    /\ last.op = "compresstimate_len"
    /\ last.len = 0
    /\ last.cfg = [block_size |-> 1, error_margin |-> <<16, 25>>,
                   confidence |-> "C80"]
    /\ Len(data) > 0
    /\ last.r.result = Ok(One)

\* C2: every ratio returned by base_truth, compresstimate and
\* compresstimate_len lies in [0, 1], and is exactly 1.0 whenever the
\* compressor emitted at least as many bytes as it was fed.
C2_RatioInUnitInterval ==
    (IsCall /\ last.r.result.kind = "ok")
    => LET x == last.r.result.ratio
       IN  /\ x.cls = "fin"
           /\ x.den > 0
           /\ 0 <= x.num
           /\ x.num <= x.den
           /\ (last.r.out >= last.r.nfed => x = One)

\* a sampled run whose compressor output outgrew its input
C2_Witness ==
    /\ last.op = "compresstimate_len"
    /\ last.r.branch = "sample"
    /\ last.r.result = Ok(One)
    /\ last.r.nfed > 0
    /\ last.r.out > last.r.nfed

\* C3: in the sampling branch, on a stream that holds the len bytes asked
\* for, the i-th block is read from the offset pos + step * i, pos being the
\* stream's position when the call was made.
C3_OffsetsRelativeToStart ==
    (/\ last.op = "compresstimate_len"
     /\ last.r.branch = "sample"
     /\ last.pos + last.len <= Len(data))
    => \A i \in 1 .. Len(Reads) : Reads[i].at = last.pos + last.r.step * (i - 1)

\* C4: when the threshold rule selects the whole read and len is what is
\* left of the stream, compresstimate_len feeds the bytes base_truth feeds
\* from the same position and returns base_truth's ratio.
C4_WholeReadMatchesBaseTruth ==
    LET bs == last.cfg.block_size
        samples == AsU64(sample_size(last.len \div bs, last.cfg.error_margin,
                                     last.cfg.confidence))
        truth == base_truth(last.cfg, RunState(data, last.pos, 0))
    IN  (/\ last.op = "compresstimate_len"
         /\ bs > 0
         /\ last.len = Remaining(last.pos)
         /\ (samples = 0 \/ last.len < samples * bs * 4))
        => /\ last.r.fed = truth.fed
           /\ last.r.result = truth.result
           /\ last.r.result.kind = "ok"

\* a whole read that the factor 4 decides, from inside the stream
C4_Witness ==
    /\ last.op = "compresstimate_len"
    /\ last.pos > 0
    /\ last.len = Remaining(last.pos)
    /\ last.r.branch = "whole"
    /\ last.r.samples > 0
    /\ last.len >= last.r.samples * last.cfg.block_size * 2
    /\ last.r.result.kind = "ok"
    /\ last.r.result.ratio # One

\* C5: error_margin panics on a margin outside (0, 1) and leaves the
\* estimator as it was; a margin inside is stored and nothing else changes.
C5_ErrorMarginChecked ==
    (last.op = "error_margin")
    => IF last.arg[1] > 0 /\ last.arg[1] < last.arg[2]
       THEN /\ last.r.result = Done
            /\ est = [last.cfg EXCEPT !.error_margin = last.arg]
       ELSE /\ last.r.result.kind = "panic"
            /\ est = last.cfg

\* a rejected margin of 1.0 on an estimator that is not the default one
C5_Witness ==
    /\ last.op = "error_margin"
    /\ last.arg = <<1, 1>>
    /\ last.r.result.kind = "panic"
    /\ est.error_margin = <<16, 25>>
    /\ est.block_size = 2

\* C6: a failed seek, read or write, a short block read included, is the
\* last I/O call of the run and the run returns its error; a ratio is
\* returned only by a run none of whose I/O calls failed.
C6_ErrorsPropagate ==
    IsCall
    => LET ops == last.r.ops
           short(o) == o.op = "read_exact" /\ o.at + o.n > Len(data)
       IN  /\ (last.fail >= 1 /\ last.fail <= Len(ops))
              => /\ Len(ops) = last.fail
                 /\ last.r.result = Err("io")
           /\ \A i \in 1 .. Len(ops) :
                 short(ops[i])
                 => /\ i = Len(ops)
                    /\ last.r.result.kind = "err"
                    /\ (last.fail # i => last.r.result = Err("UnexpectedEof"))
           /\ last.r.result.kind = "ok"
              => /\ last.fail = 0 \/ last.fail > Len(ops)
                 /\ Len(ops) > 0
                 /\ ops[Len(ops)].op = "finish"
                 /\ \A i \in 1 .. Len(ops) : ~short(ops[i])

\* the second sampled block is short: the run ends at that read
C6_Witness ==
    /\ last.op = "compresstimate_len"
    /\ last.fail = 0
    /\ last.r.result = Err("UnexpectedEof")
    /\ last.r.fed # <<>>
    /\ Len(last.r.ops) = 6

C8_ConfigValid ==
    /\ est.block_size > 0
    /\ est.error_margin[1] > 0
    /\ est.error_margin[1] < est.error_margin[2]

\* C9: compresstimate computes len = end - pos without underflow, seeks
\* back to pos, and returns what compresstimate_len(stream, end - pos)
\* returns from pos.
C9_LenIsDistanceToEnd ==
    (last.op = "compresstimate" /\ last.cfg.block_size > 0)
    => /\ last.r.len >= 0
       /\ last.r.len = Len(data) - last.pos
       /\ last.r.ops[3] = Op("seek", last.pos, 0)
       /\ last.r.result =
             compresstimate_len(last.cfg, RunState(data, last.pos, 0),
                                Remaining(last.pos)).result

\* C10: in the sampling branch (samples > 0 and len >= samples *
\* block_size * 4) the stride is at least 4 blocks, the blocks are read at
\* increasing offsets without overlap, the last one ends at or before len,
\* and a read is short only if len exceeds the stream's content.
C10_SamplingInBounds ==
    LET bs == last.cfg.block_size
        samples == last.r.samples
        step == last.r.step
    IN  (last.op = "compresstimate_len" /\ last.r.branch = "sample")
        => /\ samples > 0
           /\ last.len >= samples * bs * 4
           /\ step >= 4 * bs
           /\ Len(Reads) <= samples
           /\ \A i \in 1 .. Len(Reads) :
                 /\ Reads[i].at = step * (i - 1)
                 /\ Reads[i].n = bs
                 /\ i > 1 => Reads[i - 1].at + bs <= Reads[i].at
           /\ step * (samples - 1) + bs <= last.len
           /\ Len(data) >= last.len
              => /\ last.r.result.kind = "ok"
                 /\ Len(Reads) = samples
                 /\ Len(last.r.fed) = bs * samples
           /\ last.r.result.kind = "err" => last.len > Len(data)

\* a sampled run of two blocks read in full
C10_Witness ==
    /\ last.op = "compresstimate_len"
    /\ last.r.branch = "sample"
    /\ last.r.samples = 2
    /\ Len(Reads) = 2
    /\ last.len = Len(data)
    /\ last.r.result.kind = "ok"

====
